---- MODULE Spec2Model ----
(***************************************************************************)
(* Model of scripts/update_headers.py: the koroFileHeader updater.         *)
(* Texts are strings; Len, SubSeq and \o act on them character by          *)
(* character, so the regular expression, the substring tests and the       *)
(* counting of line terminators are computed as the Python code computes   *)
(* them.                                                                   *)
(***************************************************************************)
EXTENDS Integers, Sequences, FiniteSets, TLC

VARIABLES
    files,      \* main: the list list_target_files returned (path ids, in order)
    fs,         \* the file system: path -> [content, mtime, ctime, attr]
    git,        \* path -> [added, last, env]: the %ci lines git log prints for
                \* the path, and how a git command about it ends: "ok", "fail"
                \* (non-zero exit) or "nostart" (git cannot be started)
    mode,       \* args.mode
    now,        \* the wall clock, in seconds
    pc,         \* main: "loop" inside the for loop, "done" after return
    idx,        \* main: position of the for loop in files
    changed,    \* main: changed
    warned,     \* main: the files a [WARN] line was printed for, in order
    attempted,  \* main: the files update_file was called on, in order
    results,    \* main: what each of those calls did: "True", "False", "raise"
    status,     \* the exit status (-1 while main runs)
    runs,       \* invocations of the tool started so far
    calls,      \* path -> the record of the last update_file call on it
    init        \* path -> the content the file had before the first invocation

vars == <<files, fs, git, mode, now, pc, idx, changed, warned, attempted,
          results, status, runs, calls, init>>

(***************************************************************************)
(* Bounds of the model.                                                    *)
(***************************************************************************)
MaxPieces == 3      \* pieces concatenated into a file's initial content
MaxFiles == 2       \* target files of one invocation
MaxClock == 2       \* last second the wall clock reaches (it starts at 1)
MaxRuns == 2        \* invocations of the tool in one behaviour

(***************************************************************************)
(* Program constants.                                                      *)
(***************************************************************************)
AUTHOR == "wuxiaoxiao"
EMAIL == "wuxiaoxiao@gmail.com"

(***************************************************************************)
(* str and Optional[str].                                                  *)
(***************************************************************************)
None == [isNone |-> TRUE, v |-> ""]
Some(s) == [isNone |-> FALSE, v |-> s]

\* `x or None` / `not x`: the empty string and None are both falsy
OrNone(s) == IF s = "" THEN None ELSE Some(s)
OrEmpty(o) == IF o.isNone THEN "" ELSE o.v

StartsAt(s, p, i) ==
    /\ i >= 1
    /\ i + Len(p) - 1 <= Len(s)
    /\ SubSeq(s, i, i + Len(p) - 1) = p

From(s, i) == IF i > Len(s) THEN "" ELSE SubSeq(s, i, Len(s))

SetMin(S) == CHOOSE k \in S : \A m \in S : k <= m
SetMax(S) == CHOOSE k \in S : \A m \in S : k >= m

\* str.find, 1-based; 0 when p does not occur at or after i
FindFrom(s, p, i) ==
    LET hits == {k \in i..(Len(s) - Len(p) + 1) : StartsAt(s, p, k)}
    IN  IF hits = {} THEN 0 ELSE SetMin(hits)

\* `p in s`
Contains(s, p) == FindFrom(s, p, 1) # 0

\* str.count, for a pattern no two occurrences of which can overlap ("\n",
\* "\r", "\r\n"): every occurrence counts
Count(s, p) == Cardinality({k \in 1..(Len(s) - Len(p) + 1) : StartsAt(s, p, k)})

\* the characters \s and str.strip() treat as white space (those a TLA+
\* string can spell; \v and the Unicode spaces behave like them)
IsSpace(ch) == ch \in {" ", "\t", "\n", "\r", "\f"}

\* index of the first character at or after i that is not white space
\* (Len(s) + 1 when there is none)
SkipSpace(s, i) ==
    SetMin({k \in i..(Len(s) + 1) : k = Len(s) + 1 \/ ~IsSpace(SubSeq(s, k, k))})

\* index of the last character at or before j that is not white space
\* (0 when there is none)
RSkipSpace(s, j) ==
    SetMax({k \in 0..j : k = 0 \/ ~IsSpace(SubSeq(s, k, k))})

\* str.strip()
Strip(s) ==
    LET i == SkipSpace(s, 1)
        j == RSkipSpace(s, Len(s))
    IN  IF i > j THEN "" ELSE SubSeq(s, i, j)

\* s.split(sep)[0]
SplitFirst(s, sep) ==
    LET j == FindFrom(s, sep, 1)
    IN  IF j = 0 THEN s ELSE SubSeq(s, 1, j - 1)

\* s.splitlines()[-1] of a non-empty text that does not end in a line break
LastLine(s) ==
    From(s, SetMax({k \in 0..Len(s) : k = 0 \/ SubSeq(s, k, k) \in {"\n", "\r"}}) + 1)

Range(q) == {q[i] : i \in 1..Len(q)}

\* eol.join(lines)
RECURSIVE Join(_, _)
Join(sep, lines) ==
    IF Len(lines) = 0 THEN ""
    ELSE IF Len(lines) = 1 THEN lines[1]
    ELSE lines[1] \o sep \o Join(sep, Tail(lines))

(***************************************************************************)
(* HEADER_RE = ^/\*[\s\S]*?\*/\s* matched at position 0: the text starts   *)
(* with the opening marker, the lazy body ends at the first closing marker *)
(* after it, and the white space behind it is part of the match.           *)
(* HeaderClose is the index of the last character of the closing marker,   *)
(* HEADER_RE is m.end() (0: no match).                                     *)
(***************************************************************************)
HeaderClose(text) ==
    IF ~StartsAt(text, "/*", 1) THEN 0
    ELSE LET j == FindFrom(text, "*/", 3)
         IN  IF j = 0 THEN 0 ELSE j + 1

MatchEnd_NoTrailingSpace(text, close) == close

MatchEnd(text, close) ==
    IF close = 0 THEN 0 ELSE SkipSpace(text, close + 1) - 1

HEADER_RE(text) == MatchEnd(text, HeaderClose(text))

(***************************************************************************)
(* normalize_datetime                                                      *)
(***************************************************************************)
normalize_datetime(dt) ==
    IF dt.isNone \/ dt.v = "" THEN None
    ELSE Some(Strip(SplitFirst(dt.v, " +")))

(***************************************************************************)
(* detect_eol                                                              *)
(***************************************************************************)
detect_eol_StrictMajority(text) ==
    IF Contains(text, "\r\n")
       /\ Count(text, "\r\n") > Count(text, "\n") - Count(text, "\r\n")
    THEN "\r\n" ELSE "\n"

detect_eol(text) ==
    IF Contains(text, "\r\n")
       /\ Count(text, "\r\n") >= Count(text, "\n") - Count(text, "\r\n")
    THEN "\r\n" ELSE "\n"

(***************************************************************************)
(* build_header                                                            *)
(***************************************************************************)
build_header(date_created, date_last, eol) ==
    LET dc == OrEmpty(date_created)
        dl == OrEmpty(date_last)
        lines == << "/*",
                    " * @Author: " \o AUTHOR,
                    " * @Email: " \o EMAIL,
                    " * @Date: " \o dc,
                    " * @LastEditors: " \o AUTHOR,
                    " * @LastEditTime: " \o dl,
                    " * @Description: ",
                    " */",
                    "" >>
    IN  Join(eol, lines)

(***************************************************************************)
(* The marker test of update_file and the splice.                          *)
(***************************************************************************)
HasMarker_LowerCase(block) ==
    \/ Contains(block, "@author")
    \/ Contains(block, "author:")
    \/ Contains(block, "@lastedittime")
    \/ Contains(block, "lastedittime")

HasMarker_Any(block) == TRUE

HasMarker(block) ==
    \/ Contains(block, "@Author")
    \/ Contains(block, "Author:")
    \/ Contains(block, "@LastEditTime")
    \/ Contains(block, "LastEditTime")

\* the branch update_file takes when the match ends at e (0: no match)
BranchAt(orig, e) ==
    IF e = 0 THEN "none"
    ELSE IF HasMarker(SubSeq(orig, 1, e)) THEN "replace"
    ELSE "foreign"

Branch(orig) == BranchAt(orig, HEADER_RE(orig))

\* new_text
SpliceAt(orig, header, e) ==
    IF BranchAt(orig, e) = "replace" THEN header \o From(orig, e + 1)
    ELSE header \o orig

Splice(orig, header) == SpliceAt(orig, header, HEADER_RE(orig))

(***************************************************************************)
(* datetime.fromtimestamp(ts).strftime('%Y-%m-%d %H:%M:%S'), for the       *)
(* seconds of the day the model's clock runs in.                           *)
(***************************************************************************)
Digits == <<"0", "1", "2", "3", "4", "5", "6", "7", "8", "9">>
D2(n) == Digits[(n \div 10) + 1] \o Digits[(n % 10) + 1]

FormatTs(ts) ==
    "2024-01-01 " \o D2(ts \div 3600) \o ":" \o D2((ts \div 60) % 60)
                  \o ":" \o D2(ts % 60)

(***************************************************************************)
(* run_git: the stripped output; '' on CalledProcessError.  Any other      *)
(* exception of check_output (FileNotFoundError when git cannot be         *)
(* started) is not caught and leaves run_git.                              *)
(***************************************************************************)
run_git(env, output) ==
    IF env = "nostart" THEN [raised |-> TRUE, out |-> ""]
    ELSE IF env = "fail" THEN [raised |-> FALSE, out |-> ""]
    ELSE [raised |-> FALSE, out |-> Strip(output)]

(***************************************************************************)
(* get_git_dates                                                           *)
(***************************************************************************)
GitDates(c, l) ==
    [raised |-> c.raised \/ l.raised,
     created |-> OrNone(IF c.out # "" THEN LastLine(c.out) ELSE c.out),
     last |-> OrNone(l.out)]

get_git_dates(path) ==
    GitDates(run_git(git[path].env, Join("\n", git[path].added)),
             run_git(git[path].env, git[path].last))

(***************************************************************************)
(* get_fs_dates.  A write sets st_mtime and st_ctime to the time of the    *)
(* write (POSIX; where st_ctime is the creation time only st_mtime moves). *)
(***************************************************************************)
Min2(a, b) == IF a <= b THEN a ELSE b

get_fs_dates(path) ==
    IF fs[path].attr = "nostat" THEN [created |-> None, modified |-> None]
    ELSE [created |-> Some(FormatTs(Min2(fs[path].ctime, fs[path].mtime))),
          modified |-> Some(FormatTs(fs[path].mtime))]

(***************************************************************************)
(* The write of update_file, lines 140-151.  What the file system answers  *)
(* is decided by the file's attribute:                                     *)
(*   rw, nostat  the write succeeds                                        *)
(*   readonly    PermissionError; chmod clears the flag; the retry succeeds*)
(*   locked      PermissionError; chmod succeeds; the retry fails again    *)
(*   denied      PermissionError; chmod itself raises                      *)
(*   ioerr       the write raises an OSError that is no PermissionError    *)
(* A failing write fails on opening the file and leaves it as it was.      *)
(* wlog lists the calls made, each with its outcome.                       *)
(***************************************************************************)
WriteOutcome(attr) ==
    IF attr \in {"readonly", "locked", "denied"} THEN "write:perm"
    ELSE IF attr = "ioerr" THEN "write:err"
    ELSE "write:ok"

ChmodOutcome(attr) == IF attr = "denied" THEN "chmod:err" ELSE "chmod:ok"

AfterChmod(attr) == IF attr = "readonly" THEN "rw" ELSE attr

WriteBack_NoRetry(attr, differs) ==
    IF ~differs THEN [ret |-> "False", wlog |-> <<>>, attr |-> attr]
    ELSE LET w1 == WriteOutcome(attr)
         IN  [ret |-> IF w1 = "write:ok" THEN "True" ELSE "raise",
              wlog |-> <<w1>>, attr |-> attr]

WriteBack(attr, differs) ==
    IF ~differs THEN [ret |-> "False", wlog |-> <<>>, attr |-> attr]
    ELSE LET w1 == WriteOutcome(attr)
         IN  IF w1 = "write:ok" THEN [ret |-> "True", wlog |-> <<w1>>, attr |-> attr]
             ELSE IF w1 # "write:perm"
             THEN [ret |-> "raise", wlog |-> <<w1>>, attr |-> attr]
             ELSE LET ch == ChmodOutcome(attr)
                      a2 == AfterChmod(attr)
                      w2 == WriteOutcome(a2)
                  IN  IF ch # "chmod:ok"
                      THEN [ret |-> "raise", wlog |-> <<w1, ch>>, attr |-> attr]
                      ELSE [ret |-> IF w2 = "write:ok" THEN "True" ELSE "raise",
                            wlog |-> <<w1, ch, w2>>, attr |-> a2]

(***************************************************************************)
(* update_file: the record of the call and the file it leaves.             *)
(***************************************************************************)
NoCall ==
    [n |-> 0, okBefore |-> 0, ret |-> "", exc |-> "", orig |-> "", eol |-> "",
     rawCreated |-> None, rawLast |-> None, created |-> None, last |-> None,
     prevCreated |-> None, prevLast |-> None,
     header |-> "", branch |-> "", new_text |-> "", wlog |-> <<>>]

\* the call record as update_file starts: what earlier calls on path left
Begin(path) ==
    [NoCall EXCEPT
        !.n = calls[path].n + 1,
        !.okBefore = calls[path].okBefore
                     + (IF calls[path].ret \in {"True", "False"} THEN 1 ELSE 0),
        !.prevCreated = IF calls[path].ret \in {"True", "False"}
                        THEN calls[path].created ELSE calls[path].prevCreated,
        !.prevLast = IF calls[path].ret \in {"True", "False"}
                     THEN calls[path].last ELSE calls[path].prevLast]

\* an exception leaves update_file: nothing was written
Raise(path, c, exc) ==
    [call |-> [c EXCEPT !.ret = "raise", !.exc = exc], file |-> fs[path]]

\* lines 140-151
Finish(path, c, w) ==
    [call |-> [c EXCEPT !.ret = w.ret,
                        !.exc = IF w.ret = "raise" THEN "write" ELSE "",
                        !.wlog = w.wlog],
     file |-> [content |-> IF w.ret = "True" THEN c.new_text ELSE c.orig,
               mtime |-> IF w.ret = "True" THEN now ELSE fs[path].mtime,
               ctime |-> IF w.ret = "True" \/ "chmod:ok" \in Range(w.wlog)
                         THEN now ELSE fs[path].ctime,
               attr |-> w.attr]]

WriteText(path, c) == Finish(path, c, WriteBack(fs[path].attr, c.new_text # c.orig))

\* lines 126-138
SpliceText(path, c, header) ==
    WriteText(path, [c EXCEPT !.header = header,
                              !.branch = Branch(c.orig),
                              !.new_text = Splice(c.orig, header)])

\* line 124
ComposeText(path, c) == SpliceText(path, c, build_header(c.created, c.last, c.eol))

\* lines 112-122
FallbackDates(path, mode_, c, c1, l1, fsd) ==
    ComposeText(path,
        [c EXCEPT !.created = IF c1.isNone THEN fsd.created ELSE c1,
                  !.last = IF mode_ = "commit" THEN Some(FormatTs(now))
                           ELSE IF l1.isNone THEN fsd.modified ELSE l1])

\* lines 108-110
DeriveDates(path, mode_, c, gd) ==
    IF gd.raised THEN Raise(path, c, "git")
    ELSE FallbackDates(path, mode_,
             [c EXCEPT !.rawCreated = gd.created, !.rawLast = gd.last],
             normalize_datetime(gd.created), normalize_datetime(gd.last),
             get_fs_dates(path))

\* lines 105-106
ReadText(path, mode_, c, orig) ==
    DeriveDates(path, mode_, [c EXCEPT !.orig = orig, !.eol = detect_eol(orig)],
                get_git_dates(path))

update_file(path, mode_) ==
    IF fs[path].attr = "unreadable" THEN Raise(path, Begin(path), "read")
    ELSE ReadText(path, mode_, Begin(path), fs[path].content)

(***************************************************************************)
(* main, lines 173-184.                                                    *)
(***************************************************************************)
\* where the loop stands after a call: an exception is caught and logged
AfterFile_Uncaught(ret, i) ==
    IF ret = "raise" THEN [pc |-> "done", idx |-> i, status |-> 1]
    ELSE [pc |-> "loop", idx |-> i + 1, status |-> -1]

AfterFile(ret, i) == [pc |-> "loop", idx |-> i + 1, status |-> -1]

Advance(a) ==
    /\ pc' = a.pc
    /\ idx' = a.idx
    /\ status' = a.status

LoopBody(f, r) ==
    /\ calls' = [calls EXCEPT ![f] = r.call]
    /\ fs' = [fs EXCEPT ![f] = r.file]
    /\ changed' = IF r.call.ret = "True" THEN changed + 1 ELSE changed
    /\ warned' = IF r.call.ret = "raise" THEN Append(warned, f) ELSE warned
    /\ attempted' = Append(attempted, f)
    /\ results' = Append(results, r.call.ret)
    /\ Advance(AfterFile(r.call.ret, idx))

MainIteration ==
    /\ pc = "loop"
    /\ idx <= Len(files)
    /\ LoopBody(files[idx], update_file(files[idx], mode))
    /\ UNCHANGED <<files, git, mode, now, runs, init>>

MainReturn ==
    /\ pc = "loop"
    /\ idx > Len(files)
    /\ pc' = "done"
    /\ status' = 0
    /\ UNCHANGED <<files, fs, git, mode, now, idx, changed, warned,
                   attempted, results, runs, calls, init>>

\* the tool is invoked again, with the same arguments
Rerun ==
    /\ pc = "done"
    /\ runs < MaxRuns
    /\ runs' = runs + 1
    /\ pc' = "loop"
    /\ idx' = 1
    /\ changed' = 0
    /\ warned' = <<>>
    /\ attempted' = <<>>
    /\ results' = <<>>
    /\ status' = -1
    /\ UNCHANGED <<files, fs, git, mode, now, calls, init>>

\* time passes between two invocations
Tick ==
    /\ pc = "done"
    /\ now < MaxClock
    /\ now' = now + 1
    /\ UNCHANGED <<files, fs, git, mode, pc, idx, changed, warned,
                   attempted, results, status, runs, calls, init>>

Next == MainIteration \/ MainReturn \/ Rerun \/ Tick

(***************************************************************************)
(* The inputs.                                                             *)
(***************************************************************************)
History(added, last, env) == [added |-> added, last |-> last, env |-> env]

Untracked == History(<<>>, "", "ok")
Tracked == History(<<"2024-01-01 00:00:00 +0800">>, "2024-01-01 00:00:00 +0800", "ok")
TrackedWest ==
    History(<<"2024-01-01 00:00:00 -0500">>, "2024-01-01 00:00:01 +0000", "ok")
Renamed ==
    History(<<"2024-01-01 00:00:01 +0800", "2024-01-01 00:00:00 +0800">>,
            "2024-01-01 00:00:01 +0800", "ok")
\* git exits non-zero for the path (it lies outside the repository)
Outside == History(<<>>, "", "fail")
\* git cannot be started
NoGit == History(<<"2024-01-01 00:00:00 +0800">>, "2024-01-01 00:00:00 +0800", "nostart")

\* a header this tool wrote for a file with the history Tracked
CurrentHeader ==
    build_header(Some("2024-01-01 00:00:00"), Some("2024-01-01 00:00:00"), "\n")

File(content, mtime, ctime, attr) ==
    [content |-> content, mtime |-> mtime, ctime |-> ctime, attr |-> attr]

\* the files an invocation may meet: [file, hist]
FileScenarios ==
    { [file |-> File("int x;\n", 0, 0, "rw"), hist |-> Untracked],
      [file |-> File(CurrentHeader \o "int x;\n", 0, 0, "rw"), hist |-> Tracked],
      [file |-> File("/* Copyright */\r\nint x;\r\n", 1, 0, "readonly"),
       hist |-> TrackedWest],
      [file |-> File("/*\n * Author: me\n */\n\nint x;\n", 0, 0, "ioerr"),
       hist |-> Renamed],
      [file |-> File("int x;\n", 0, 0, "unreadable"), hist |-> Tracked],
      [file |-> File("int x;\n", 0, 0, "denied"), hist |-> Tracked],
      [file |-> File("\nint x;\n", 0, 1, "locked"), hist |-> Untracked],
      [file |-> File("int x;\n", 0, 0, "nostat"), hist |-> Untracked],
      [file |-> File("int x;\n", 0, 0, "rw"), hist |-> Outside],
      [file |-> File("int x;\n", 0, 0, "rw"), hist |-> NoGit] }

InitOf(n, scen) ==
    /\ files = [i \in 1..n |-> i]
    /\ fs = [p \in 1..n |-> scen[p].file]
    /\ git = [p \in 1..n |-> scen[p].hist]
    /\ init = [p \in 1..n |-> scen[p].file.content]
    /\ calls = [p \in 1..n |-> NoCall]
    /\ now = 1
    /\ pc = "loop"
    /\ idx = 1
    /\ changed = 0
    /\ warned = <<>>
    /\ attempted = <<>>
    /\ results = <<>>
    /\ status = -1
    /\ runs = 1

Init ==
    /\ mode \in {"git", "commit"}
    /\ \E n \in 0..MaxFiles : \E scen \in [1..n -> FileScenarios] : InitOf(n, scen)

Spec == Init /\ [][Next]_vars

(***************************************************************************)
(* The splice alone: one writable, tracked file whose content runs over    *)
(* every text of at most MaxPieces pieces.                                 *)
(***************************************************************************)
Pieces == {"/*", "*/", "\n", "\r\n", "x", "Author:", "/* LastEditTime */"}

RECURSIVE PieceTexts(_)
PieceTexts(n) ==
    IF n = 0 THEN {""}
    ELSE LET S == PieceTexts(n - 1)
         IN  S \cup {s \o p : s \in S, p \in Pieces}

SpliceInit ==
    /\ mode \in {"git", "commit"}
    /\ \E c \in PieceTexts(MaxPieces) :
          InitOf(1, [p \in {1} |-> [file |-> File(c, 0, 0, "rw"), hist |-> Tracked]])

\* the invocations follow each other within one second of the clock
SpliceNext == MainIteration \/ MainReturn \/ Rerun

SpliceSpec == SpliceInit /\ [][SpliceNext]_vars

(***************************************************************************)
(* Properties.  Each is stated over calls[p], the record of the last       *)
(* update_file call on the file p.  JustCalled is the file of the call     *)
(* main has just made: the properties of a call are stated where the call  *)
(* ends.                                                                   *)
(***************************************************************************)
JustCalled == IF pc = "loop" /\ idx > 1 THEN {files[idx - 1]} ELSE {}

Called(p) == calls[p].n >= 1
Returned(p) == calls[p].ret \in {"True", "False"}
Composed(p) == Called(p) /\ calls[p].exc \notin {"read", "git"}

MarkerTokens == {"@Author", "Author:", "@LastEditTime", "LastEditTime"}

\* text begins with a block comment; its text runs to the first closing marker
LeadingBlock(text) == SubSeq(text, 1, HeaderClose(text))
BeginsWithMarkerBlock(text) ==
    /\ HeaderClose(text) # 0
    /\ \E t \in MarkerTokens : Contains(LeadingBlock(text), t)
BeginsWithForeignBlock(text) ==
    /\ HeaderClose(text) # 0
    /\ \A t \in MarkerTokens : ~Contains(LeadingBlock(text), t)

BeginsWithSpace(text) == Len(text) >= 1 /\ IsSpace(SubSeq(text, 1, 1))

\* C1: with the derived timestamps of the previous run, a further run of
\* update_file composes the text the file already holds and writes nothing.
C1_SpliceIdempotent ==
    \A p \in JustCalled :
        ( /\ calls[p].okBefore >= 1
          /\ Returned(p)
          /\ calls[p].created = calls[p].prevCreated
          /\ calls[p].last = calls[p].prevLast )
        => (calls[p].new_text = calls[p].orig /\ calls[p].ret = "False")

\* C2: in --mode git, with the version-control history unchanged, a file that
\* holds the header an earlier run gave it is left byte-identical by a later
\* run, whether tracked or untracked.  (Stated for the files whose content
\* did not begin with white space, which C1 is about.)
C2_RunIdempotentGit ==
    \A p \in JustCalled :
        ( /\ mode = "git"
          /\ git[p].env = "ok"
          /\ calls[p].okBefore >= 1
          /\ Returned(p)
          /\ ~BeginsWithSpace(init[p]) )
        => (calls[p].ret = "False" /\ fs[p].content = calls[p].orig)

KeptFrom(p, j) ==
    /\ calls[p].new_text = calls[p].header \o From(calls[p].orig, j + 1)
    /\ \A k \in (HeaderClose(calls[p].orig) + 1)..j :
           IsSpace(SubSeq(calls[p].orig, k, k))
    /\ j < Len(calls[p].orig) => ~IsSpace(SubSeq(calls[p].orig, j + 1, j + 1))

CrLfs(text) == Cardinality({i \in 1..Len(text) : StartsAt(text, "\r\n", i)})
BareLfs(text) ==
    Cardinality({i \in 1..Len(text) :
                    /\ SubSeq(text, i, i) = "\n"
                    /\ ~StartsAt(text, "\r\n", i - 1)})

JoinedWith(header, eol) ==
    /\ Count(header, "\n") = 8
    /\ Count(header, "\r") = (IF eol = "\r\n" THEN 8 ELSE 0)

C6_GitFailureSwallowed ==
    \A p \in JustCalled :
        (Called(p) /\ git[p].env # "ok" /\ calls[p].exc # "read")
        => /\ calls[p].exc # "git"
           /\ calls[p].header # ""
           /\ p \in Range(warned) => calls[p].exc = "write"

\* C7: main attempts the target files once each, in list order; a failing
\* file is logged and the loop goes on; main returns 0; the count is the
\* number of calls that returned True.
Trues(res) == Cardinality({i \in 1..Len(res) : res[i] = "True"})
Raising(att, res) == {att[i] : i \in {k \in 1..Len(res) : res[k] = "raise"}}

C7_BatchIsolation ==
    /\ Len(attempted) <= Len(files)
    /\ attempted = SubSeq(files, 1, Len(attempted))
    /\ Len(results) = Len(attempted)
    /\ changed = Trues(results)
    /\ Range(warned) = Raising(attempted, results)
    /\ pc = "loop" => (idx = Len(attempted) + 1 /\ status = -1)
    /\ pc = "done" => (attempted = files /\ status = 0)

C7_Witness ==
    /\ pc = "done"
    /\ Len(files) >= 2
    /\ results[1] = "raise"
    /\ results[2] = "True"
    /\ changed = 1

\* C8: the file is written only when the composed text differs; a
\* PermissionError of that write is answered by one chmod and one retry; a
\* failing chmod or retry leaves update_file as an exception; so there are
\* at most two write attempts, True is returned only after a write that
\* succeeded and False only when none was attempted.
Writes(wlog) ==
    Cardinality({i \in 1..Len(wlog) : wlog[i] \in {"write:ok", "write:perm", "write:err"}})

WriteProtocol(c) ==
    /\ Writes(c.wlog) <= 2
    /\ c.wlog # <<>> <=> c.new_text # c.orig
    /\ c.ret = "False" <=> c.wlog = <<>>
    /\ c.ret = "True" <=> (c.wlog # <<>> /\ c.wlog[Len(c.wlog)] = "write:ok")
    /\ c.wlog # <<>> =>
         /\ c.wlog[1] \in {"write:ok", "write:perm", "write:err"}
         /\ c.wlog[1] # "write:perm" => Len(c.wlog) = 1
         /\ c.wlog[1] = "write:perm" =>
              /\ Len(c.wlog) >= 2
              /\ c.wlog[2] \in {"chmod:ok", "chmod:err"}
              /\ c.wlog[2] = "chmod:err" => Len(c.wlog) = 2
              /\ c.wlog[2] = "chmod:ok" =>
                   /\ Len(c.wlog) = 3
                   /\ c.wlog[3] \in {"write:ok", "write:perm", "write:err"}

C8_WriteRetryProtocol ==
    /\ \A p \in DOMAIN calls : Composed(p) => WriteProtocol(calls[p])
    /\ \A i \in 1..Len(results) :
          results[i] = "raise" => i <= Len(attempted) /\ changed <= Len(results) - 1
    /\ pc = "done" => Len(attempted) = Len(files)

C8_Witness ==
    /\ pc = "done"
    /\ \E p \in DOMAIN calls :
          /\ calls[p].wlog = <<"write:perm", "chmod:ok", "write:ok">>
          /\ calls[p].ret = "True"
    /\ \E p \in DOMAIN calls :
          /\ calls[p].wlog = <<"write:perm", "chmod:ok", "write:perm">>
          /\ calls[p].ret = "raise"

\* C9: a timestamp of the version-control log, "YYYY-MM-DD HH:MM:SS <offset>"
\* with an offset of either sign, is cut down to its first 19 characters,
\* "YYYY-MM-DD HH:MM:SS", for the header.
C9_OffsetStripped ==
    \A p \in JustCalled :
        (Composed(p) /\ ~calls[p].rawCreated.isNone)
        => /\ calls[p].created = Some(SubSeq(calls[p].rawCreated.v, 1, 19))
           /\ Contains(calls[p].header,
                       "@Date: " \o SubSeq(calls[p].rawCreated.v, 1, 19) \o calls[p].eol)

\* the block comments of a text that hold a marker token, counted left to
\* right (an unterminated comment ends the count)
RECURSIVE MarkerBlocksFrom(_, _)
RECURSIVE BlockOpenedAt(_, _)
RECURSIVE BlockClosedAt(_, _, _)
MarkerBlocksFrom(text, i) == BlockOpenedAt(text, FindFrom(text, "/*", i))
BlockOpenedAt(text, o) ==
    IF o = 0 THEN 0 ELSE BlockClosedAt(text, o, FindFrom(text, "*/", o + 2))
BlockClosedAt(text, o, c) ==
    IF c = 0 THEN 0
    ELSE (IF \E t \in MarkerTokens : Contains(SubSeq(text, o, c + 1), t) THEN 1 ELSE 0)
         + MarkerBlocksFrom(text, c + 2)

MarkerBlocks(text) == MarkerBlocksFrom(text, 1)

\* C10: the text a run composes starts with the header of that run; a run
\* after one that returned finds that header and replaces it, never puts a
\* header in front; so the text holds one generated header more than the
\* marker blocks kept from the original, and a later run adds none.
NoStacking(c, blocks) ==
    /\ blocks = 1 + MarkerBlocksFrom(c.new_text, Len(c.header) + 1)
    /\ c.okBefore >= 1 => (c.branch = "replace" /\ blocks = MarkerBlocks(c.orig))

C10_NoHeaderAccumulation ==
    \A p \in JustCalled :
        Composed(p)
        => /\ StartsAt(calls[p].new_text, calls[p].header, 1)
           /\ BeginsWithMarkerBlock(calls[p].header)
           /\ HeaderClose(calls[p].header) + Len(calls[p].eol) = Len(calls[p].header)
           /\ NoStacking(calls[p], MarkerBlocks(calls[p].new_text))

C10_Witness ==
    \E p \in JustCalled :
        /\ Composed(p)
        /\ calls[p].okBefore >= 1
        /\ calls[p].branch = "replace"
        /\ MarkerBlocks(init[p]) = 1
        /\ MarkerBlocks(calls[p].new_text) = 2
        /\ ~BeginsWithMarkerBlock(init[p])

====
